---- MODULE Spec2Model ----
(***************************************************************************)
(* Roloi streams contract (ink!): src/lib.rs, src/stream.rs, src/utils.rs. *)
(*                                                                         *)
(* The contract keeps a mapping of token streams and a counter for the     *)
(* next stream id.  A payer creates a stream with the value attached to    *)
(* the call; the recipient withdraws what elapsed time has unlocked.       *)
(*                                                                         *)
(* Unsigned integers keep a width: u64 values live in 0..U64Max and u128   *)
(* values in 0..U128Max.  The widths are scaled down so that the model     *)
(* checker can enumerate the corner cases; every arithmetic step of the    *)
(* source goes through Arith, which either panics (overflow checks on, as  *)
(* in a debug build) or wraps around (overflow checks off, as in a release *)
(* build) -- the build profile is chosen once, in Init.                    *)
(***************************************************************************)
EXTENDS Integers, Sequences, FiniteSets, TLC

(***************************************************************************)
(* Bounds of the model.                                                    *)
(***************************************************************************)
\* largest value of the scaled-down u64 (stands for 2^64 - 1)
U64Max == 1048575
\* largest value of the scaled-down u128 (stands for 2^128 - 1)
U128Max == 2097151
\* number of streams create_stream may store under Spec
MaxStreams == 1
\* number of streams create_stream may store under SpecRegistry
MaxRegistryStreams == 2

(***************************************************************************)
(* Program constants.                                                      *)
(***************************************************************************)
STREAM_MINIMUM_DURATION == 300
\* get_current_time_in_seconds divides the block timestamp (ms) by this
MillisPerSecond == 1000

(***************************************************************************)
(* Input domains.                                                          *)
(***************************************************************************)
Accounts == {"alice", "bob"}
\* the recipient named in create_stream calls
Recipients == {"bob"}
\* block timestamps in milliseconds: seconds 0, 1 and 301
BlockTimestamps == {0, 1999, 301000}
\* the smallest funds whose product with 301 seconds overflows the u128
BigFunds == (U128Max \div 301) + 1
\* value attached to a create_stream call
Funds == {0, 450, BigFunds}

\* Option<T>: None is the empty sequence, Some(v) the one-element sequence
None == << >>
Some(v) == << v >>
Unwrap(o) == o[1]

\* no end date, one the stream is at when the clock shows 301 s, a later one
EndDates == {None, Some(301), Some(1000)}
Durations == {None, Some(STREAM_MINIMUM_DURATION - 1), Some(STREAM_MINIMUM_DURATION), Some(U64Max)}

(***************************************************************************)
(* Results: Result<u64 | u128, ContractError>, or a panic of the call.     *)
(***************************************************************************)
Ok(v) == [tag |-> "Ok", val |-> v, err |-> "-"]
Err(e) == [tag |-> "Err", val |-> 0, err |-> e]
Panic == [tag |-> "Panic", val |-> 0, err |-> "-"]
IsOk(r) == r.tag = "Ok"
IsErr(r, e) == r.tag = "Err" /\ r.err = e

(***************************************************************************)
(* Fixed-width arithmetic.  x is the mathematical result of an operation   *)
(* on a type with values 0..max.  With overflow checks the operation       *)
(* panics when x is out of range, without them the result wraps around.    *)
(***************************************************************************)
Arith(x, max, checks) ==
    IF 0 <= x /\ x <= max THEN Ok(x)
    ELSE IF checks THEN Panic
    ELSE Ok(x % (max + 1))

\* Stream::new leaving current_balance at zero
StreamNewEmpty(payer, recipient, stream_funds, start_date, end_date) ==
    [payer |-> payer, recipient |-> recipient, original_balance |-> stream_funds,
     current_balance |-> 0, start_date |-> start_date, end_date |-> end_date]

(***************************************************************************)
(* src/stream.rs                                                           *)
(***************************************************************************)
\* Stream::new
StreamNew(payer, recipient, stream_funds, start_date, end_date) ==
    [payer |-> payer, recipient |-> recipient,
     original_balance |-> stream_funds, current_balance |-> stream_funds,
     start_date |-> start_date, end_date |-> end_date]

\* Stream::is_finished
is_finished(stream, current_time) == current_time > stream.end_date

\* Stream::total_duration
total_duration(stream, checks) ==
    Arith(stream.end_date - stream.start_date, U64Max, checks)

\* has_permission_to_withdraw letting the payer through as well
PermissionForPayerToo(stream, caller) ==
    IF caller # stream.recipient /\ caller # stream.payer
    THEN Err("Unauthorized") ELSE Ok(0)

\* Stream::has_permission_to_withdraw
has_permission_to_withdraw(stream, caller) ==
    IF caller # stream.recipient THEN Err("Unauthorized") ELSE Ok(0)

\* withdraw refusing an amount equal to current_balance
StreamWithdrawStrict(stream, amount) ==
    IF stream.current_balance <= amount
    THEN [result |-> Err("ExpectedWithdrawalAmountExceedsStreamAvailableBalance"),
          stream |-> stream]
    ELSE [result |-> Ok(0),
          stream |-> [stream EXCEPT !.current_balance = @ - amount]]

\* withdraw checking the amount and leaving current_balance as it is
StreamWithdrawKeepsBalance(stream, amount) ==
    IF stream.current_balance < amount
    THEN [result |-> Err("ExpectedWithdrawalAmountExceedsStreamAvailableBalance"),
          stream |-> stream]
    ELSE [result |-> Ok(0), stream |-> stream]

\* Stream::withdraw without its balance check: the subtraction wraps around
StreamWithdrawUnchecked(stream, amount) ==
    [result |-> Ok(0),
     stream |-> [stream EXCEPT
                    !.current_balance = (stream.current_balance - amount) % (U128Max + 1)]]

\* Stream::withdraw: the result, and the stream after the call
StreamWithdraw(stream, amount) ==
    IF stream.current_balance < amount
    THEN [result |-> Err("ExpectedWithdrawalAmountExceedsStreamAvailableBalance"),
          stream |-> stream]
    ELSE [result |-> Ok(0),
          stream |-> [stream EXCEPT !.current_balance = stream.current_balance - amount]]

\* the linear branch of Stream::get_available_balance
LinearAvailable(stream, balance_withdrawn, current_time, checks) ==
    LET elapsed_time == Arith(current_time - stream.start_date, U64Max, checks)
        duration == total_duration(stream, checks)
    IN  IF ~IsOk(elapsed_time) THEN Panic
        ELSE LET product == Arith(stream.original_balance * elapsed_time.val, U128Max, checks)
             IN  IF ~IsOk(product) \/ ~IsOk(duration) THEN Panic
                 ELSE IF duration.val = 0 THEN Panic
                 ELSE Arith((product.val \div duration.val) - balance_withdrawn,
                            U128Max, checks)

\* the value of the local available_balance of Stream::get_available_balance
AvailableBalance(stream, current_time, checks) ==
    LET balance_withdrawn ==
            Arith(stream.original_balance - stream.current_balance, U128Max, checks)
    IN  IF ~IsOk(balance_withdrawn) THEN Panic
        ELSE IF is_finished(stream, current_time)
        THEN Arith(stream.original_balance - balance_withdrawn.val, U128Max, checks)
        ELSE LinearAvailable(stream, balance_withdrawn.val, current_time, checks)

\* Stream::get_available_balance
get_available_balance(stream, current_time, checks) ==
    LET available_balance == AvailableBalance(stream, current_time, checks)
    IN  IF ~IsOk(available_balance) THEN Panic
        ELSE IF available_balance.val = 0 THEN Err("StreamAvailableBalanceIsZero")
        ELSE Ok(available_balance.val)

(***************************************************************************)
(* src/utils.rs                                                            *)
(***************************************************************************)
validate_stream_end_date(start_date, end_date, checks) ==
    LET minimum == Arith(start_date + STREAM_MINIMUM_DURATION, U64Max, checks)
    IN  IF ~IsOk(minimum) THEN Panic
        ELSE IF end_date < minimum.val THEN Err("StreamEndDateShouldBeLater")
        ELSE Ok(0)

validate_stream_duration(duration) ==
    IF duration < STREAM_MINIMUM_DURATION THEN Err("StreamDurationShouldBeGreater")
    ELSE Ok(0)

\* validate_and_generate_stream_end_date looking at the duration first
EndDateFromDurationFirst(end_date, duration, start_date, checks) ==
    IF end_date = None /\ duration = None THEN Err("EndDateAndDurationAreEmpty")
    ELSE IF duration # None
    THEN LET v == validate_stream_duration(Unwrap(duration))
         IN  IF IsOk(v) THEN Arith(start_date + Unwrap(duration), U64Max, checks) ELSE v
    ELSE LET v == validate_stream_end_date(start_date, Unwrap(end_date), checks)
         IN  IF IsOk(v) THEN Ok(Unwrap(end_date)) ELSE v

validate_and_generate_stream_end_date(end_date, duration, start_date, checks) ==
    IF end_date = None /\ duration = None THEN Err("EndDateAndDurationAreEmpty")
    ELSE IF end_date # None
    THEN LET v == validate_stream_end_date(start_date, Unwrap(end_date), checks)
         IN  IF IsOk(v) THEN Ok(Unwrap(end_date)) ELSE v
    ELSE IF duration # None
    THEN LET v == validate_stream_duration(Unwrap(duration))
         IN  IF IsOk(v) THEN Arith(start_date + Unwrap(duration), U64Max, checks) ELSE v
    ELSE Err("Unexpected")

\* validate_stream_creation_parameters checking the funds first
CreationParametersFundsFirst(payer, recipient, funds) ==
    IF funds <= 0 THEN Err("EmptyFunds")
    ELSE IF payer = recipient THEN Err("RecipientCannotBePayer")
    ELSE Ok(0)

validate_stream_creation_parameters(payer, recipient, funds) ==
    IF payer = recipient THEN Err("RecipientCannotBePayer")
    ELSE IF funds <= 0 THEN Err("EmptyFunds")
    ELSE Ok(0)

\* validate_recipient_withdrawal_amount accepting an amount of zero
WithdrawalAmountUnvalidated(withdrawal_amount) == Ok(0)

validate_recipient_withdrawal_amount(withdrawal_amount) ==
    IF withdrawal_amount # None /\ Unwrap(withdrawal_amount) = 0
    THEN Err("WithdrawalAmountShouldBeGreaterThanZero")
    ELSE Ok(0)

\* get_current_time_in_seconds taking the remainder for the quotient
TimeInSecondsRemainder(timestamp) == timestamp % MillisPerSecond

TimeInSeconds(timestamp) == timestamp \div MillisPerSecond

(***************************************************************************)
(* src/lib.rs: the contract                                                *)
(***************************************************************************)
VARIABLES
    overflow_checks,    \* build profile: TRUE panics on overflow, FALSE wraps
    block_timestamp,    \* env().block_timestamp(), in milliseconds
    next_stream_id,     \* StreamsContract.next_stream_id
    streams,            \* StreamsContract.streams: stream id -> Stream
    created_ids,        \* identifiers returned by successful create_stream calls
    last                \* the last request and its response

vars == <<overflow_checks, block_timestamp, next_stream_id, streams, created_ids, last>>

get_current_time_in_seconds == TimeInSeconds(block_timestamp)

\* a request record; fields an operation does not use keep these defaults
NoCall ==
    [op |-> "none", caller |-> "-", recipient |-> "-", funds |-> 0,
     end_date |-> None, duration |-> None, stream_id |-> 0,
     withdrawal_amount |-> None, time |-> 0, result |-> Ok(0),
     transfer |-> None, stream |-> None]

\* StreamsContract::new
Init ==
    /\ overflow_checks \in BOOLEAN
    /\ block_timestamp = 0
    /\ next_stream_id = 1
    /\ streams = << >>
    /\ created_ids = << >>
    /\ last = [NoCall EXCEPT !.op = "new"]

\* get_stream_by_id reading the entry after the one asked for
GetStreamByIdOffByOne(map, stream_id) ==
    IF stream_id + 1 \in DOMAIN map THEN Some(map[stream_id + 1]) ELSE None

\* StreamsContract::get_stream_by_id
get_stream_by_id(map, stream_id) ==
    IF stream_id \in DOMAIN map THEN Some(map[stream_id]) ELSE None

\* streams.insert dropping every other entry
InsertAlone(map, key, value) == [k \in {key} |-> value]

\* Mapping::insert
Insert(map, key, value) ==
    [k \in DOMAIN map \cup {key} |-> IF k = key THEN value ELSE map[k]]

\* self.next_stream_id += 1, left out
NextStreamIdStuck(id, checks) == Ok(id)

\* self.next_stream_id += 1
NextStreamId(id, checks) == Arith(id + 1, U64Max, checks)

\* the validations of create_stream: an error, or the resolved end date
CreateOutcome(caller, recipient, stream_funds, end_date, duration, start_date, checks) ==
    LET params == validate_stream_creation_parameters(caller, recipient, stream_funds)
        end == validate_and_generate_stream_end_date(end_date, duration, start_date, checks)
    IN  IF ~IsOk(params) THEN params
        ELSE end

\* limit: the number of streams the model lets the contract store
create_stream(limit, caller, recipient, stream_funds, end_date, duration) ==
    LET start_date == get_current_time_in_seconds
        outcome == CreateOutcome(caller, recipient, stream_funds, end_date, duration,
                                 start_date, overflow_checks)
        request == [NoCall EXCEPT !.op = "create_stream", !.caller = caller,
                        !.recipient = recipient, !.funds = stream_funds,
                        !.end_date = end_date, !.duration = duration,
                        !.time = start_date]
        next_id == NextStreamId(next_stream_id, overflow_checks)
    IN  /\ next_stream_id <= limit
        /\ IF IsOk(outcome) /\ IsOk(next_id)
           THEN /\ streams' = Insert(streams, next_stream_id,
                        StreamNew(caller, recipient, stream_funds, start_date, outcome.val))
                /\ next_stream_id' = next_id.val
                /\ created_ids' = Append(created_ids, next_stream_id)
                /\ last' = [request EXCEPT !.result = Ok(next_stream_id)]
           ELSE /\ UNCHANGED <<streams, next_stream_id, created_ids>>
                /\ last' = [request EXCEPT
                        !.result = IF IsOk(outcome) THEN Panic ELSE outcome]
        /\ UNCHANGED <<overflow_checks, block_timestamp>>

CreateStream ==
    \E caller \in Accounts, recipient \in Recipients, funds \in Funds,
       end_date \in EndDates, duration \in Durations :
        create_stream(MaxStreams, caller, recipient, funds, end_date, duration)

\* recipient_withdraw transferring the available balance whatever the amount
\* it has withdrawn from the stream
WithdrawAmountPaysAvailable(stream, amount_to_withdraw, available_balance) ==
    LET withdrawn == StreamWithdraw(stream, amount_to_withdraw)
    IN  IF amount_to_withdraw > available_balance
        THEN [result |-> Err("ExpectedWithdrawalAmountExceedsStreamAvailableBalance"),
              amount |-> 0, stream |-> None]
        ELSE IF ~IsOk(withdrawn.result)
        THEN [result |-> withdrawn.result, amount |-> 0, stream |-> None]
        ELSE [result |-> Ok(amount_to_withdraw),
              amount |-> available_balance,
              stream |-> Some(withdrawn.stream)]

\* recipient_withdraw persisting the stream before it compares the amount
\* with the available balance
WithdrawAmountCheckedLate(stream, amount_to_withdraw, available_balance) ==
    LET withdrawn == StreamWithdraw(stream, amount_to_withdraw)
    IN  IF ~IsOk(withdrawn.result)
        THEN [result |-> withdrawn.result, amount |-> 0, stream |-> None]
        ELSE [result |->
                 IF amount_to_withdraw > available_balance
                 THEN Err("ExpectedWithdrawalAmountExceedsStreamAvailableBalance")
                 ELSE Ok(amount_to_withdraw),
              amount |-> amount_to_withdraw,
              stream |-> Some(withdrawn.stream)]

\* recipient_withdraw from the comparison of the amount with the available
\* balance to stream.withdraw
WithdrawAmount(stream, amount_to_withdraw, available_balance) ==
    LET withdrawn == StreamWithdraw(stream, amount_to_withdraw)
    IN  IF amount_to_withdraw > available_balance
        THEN [result |-> Err("ExpectedWithdrawalAmountExceedsStreamAvailableBalance"),
              amount |-> 0, stream |-> None]
        ELSE IF ~IsOk(withdrawn.result)
        THEN [result |-> withdrawn.result, amount |-> 0, stream |-> None]
        ELSE [result |-> Ok(amount_to_withdraw),
              amount |-> amount_to_withdraw,
              stream |-> Some(withdrawn.stream)]

\* the outcome of recipient_withdraw up to the transfer: its result so far,
\* the amount to withdraw and the stream to persist (None: nothing is stored)
WithdrawOutcome(map, caller, stream_id, withdrawal_amount, current_time, checks) ==
    LET amount_check == validate_recipient_withdrawal_amount(withdrawal_amount)
        found == get_stream_by_id(map, stream_id)
        nothing == [amount |-> 0, stream |-> None]
    IN  IF ~IsOk(amount_check) THEN [result |-> amount_check] @@ nothing
        ELSE IF found = None THEN [result |-> Err("StreamDoesNotExist")] @@ nothing
        ELSE LET stream == Unwrap(found)
                 permission == has_permission_to_withdraw(stream, caller)
                 available_balance == get_available_balance(stream, current_time, checks)
                 amount_to_withdraw ==
                     IF withdrawal_amount # None THEN Unwrap(withdrawal_amount)
                     ELSE available_balance.val
             IN  IF ~IsOk(permission) THEN [result |-> permission] @@ nothing
                 ELSE IF ~IsOk(available_balance)
                 THEN [result |-> available_balance] @@ nothing
                 ELSE WithdrawAmount(stream, amount_to_withdraw, available_balance.val)

\* the end of recipient_withdraw with a failed transfer taken for a success
TransferResultIgnored(result, transfer_ok) == result

\* the end of recipient_withdraw: the result so far, or the failed transfer
TransferResult(result, transfer_ok) ==
    IF transfer_ok THEN result ELSE Err("WithdrawTransferFailed")

\* transfer_ok: whether env().transfer succeeds
recipient_withdraw(caller, stream_id, withdrawal_amount, transfer_ok) ==
    LET current_time == get_current_time_in_seconds
        outcome == WithdrawOutcome(streams, caller, stream_id, withdrawal_amount,
                                   current_time, overflow_checks)
        request == [NoCall EXCEPT !.op = "recipient_withdraw", !.caller = caller,
                        !.stream_id = stream_id,
                        !.withdrawal_amount = withdrawal_amount,
                        !.time = current_time]
    IN  /\ IF outcome.stream # None
           THEN /\ streams' = Insert(streams, stream_id, Unwrap(outcome.stream))
                /\ last' = [request EXCEPT
                        !.transfer = Some([to |-> Unwrap(outcome.stream).recipient,
                                           amount |-> outcome.amount,
                                           ok |-> transfer_ok]),
                        !.result = TransferResult(outcome.result, transfer_ok)]
           ELSE /\ UNCHANGED streams
                /\ last' = [request EXCEPT !.result = outcome.result]
        /\ UNCHANGED <<overflow_checks, block_timestamp, next_stream_id, created_ids>>

\* amounts a withdrawal asks for: none, zero, half of the stream, the maximum
WithdrawalAmounts(stream_id) ==
    {None, Some(0), Some(U128Max)}
        \cup (IF stream_id \in DOMAIN streams
              THEN {Some(streams[stream_id].original_balance \div 2)} ELSE {})

RecipientWithdraw ==
    \E caller \in Accounts, stream_id \in 0..MaxStreams :
        \E withdrawal_amount \in WithdrawalAmounts(stream_id), transfer_ok \in BOOLEAN :
            recipient_withdraw(caller, stream_id, withdrawal_amount, transfer_ok)

get_stream_by_id_message(stream_id) ==
        /\ last' = [NoCall EXCEPT !.op = "get_stream_by_id", !.stream_id = stream_id,
                        !.time = get_current_time_in_seconds,
                        !.stream = get_stream_by_id(streams, stream_id),
                        !.result = IF get_stream_by_id(streams, stream_id) = None
                                   THEN Err("StreamDoesNotExist") ELSE Ok(0)]
        /\ UNCHANGED <<overflow_checks, block_timestamp, next_stream_id, streams,
                       created_ids>>

GetStreamById == \E stream_id \in 0..MaxStreams : get_stream_by_id_message(stream_id)

\* the block timestamp moves forward
AdvanceBlock ==
    /\ \E t \in BlockTimestamps : t > block_timestamp /\ block_timestamp' = t
    /\ last' = NoCall
    /\ UNCHANGED <<overflow_checks, next_stream_id, streams, created_ids>>

Next == CreateStream \/ RecipientWithdraw \/ GetStreamById \/ AdvanceBlock

Spec == Init /\ [][Next]_vars

(***************************************************************************)
(* Stream balances and vesting                                             *)
(***************************************************************************)
Now == get_current_time_in_seconds

\* what linear vesting has unlocked of a stream at time t, start <= t <= end
VestedAmount(stream, t) ==
    (stream.original_balance * (t - stream.start_date))
        \div (stream.end_date - stream.start_date)

Withdrawn(stream) == stream.original_balance - stream.current_balance

InVestingPeriod(stream, t) == stream.start_date <= t /\ t <= stream.end_date

\* C1: every stored stream has 0 <= current_balance <= original_balance.
C1_BalanceWithinOriginal ==
    \A id \in DOMAIN streams :
        /\ 0 <= streams[id].current_balance
        /\ streams[id].current_balance <= streams[id].original_balance

\* a stream that a withdrawal has left partly paid out
C1_Witness ==
    /\ last.op = "recipient_withdraw" /\ IsOk(last.result)
    /\ \E id \in DOMAIN streams :
        /\ 0 < streams[id].current_balance
        /\ streams[id].current_balance < streams[id].original_balance

\* C2: during the vesting period the amount withdrawn from a stream is at
\* most floor(original_balance * (t - start_date) / (end_date - start_date)).
C2_WithdrawnWithinVested ==
    \A id \in DOMAIN streams :
        InVestingPeriod(streams[id], Now)
            => Withdrawn(streams[id]) <= VestedAmount(streams[id], Now)

\* C3: a value returned by get_available_balance is at most current_balance.
C3_AvailableWithinCurrent ==
    \A id \in DOMAIN streams :
        LET available == get_available_balance(streams[id], Now, overflow_checks)
        IN  IsOk(available) => available.val <= streams[id].current_balance

\* what the claims C4 and C5 expect of get_available_balance for an
\* available balance of `amount`: the amount, or the zero-balance error
Expected(amount) ==
    IF amount = 0 THEN Err("StreamAvailableBalanceIsZero") ELSE Ok(amount)

\* C4: with nothing withdrawn, at start_date <= t <= end_date the available
\* balance is floor(original_balance * (t - start_date) / (end_date - start_date)).
C4_LinearVestingExact ==
    \A id \in DOMAIN streams :
        (Withdrawn(streams[id]) = 0 /\ InVestingPeriod(streams[id], Now))
            => get_available_balance(streams[id], Now, overflow_checks)
                   = Expected(VestedAmount(streams[id], Now))

\* C5: at any time t >= end_date the available balance is the whole
\* remaining current_balance.
C5_FullVestBoundary ==
    \A id \in DOMAIN streams :
        (streams[id].start_date <= Now /\ Now >= streams[id].end_date)
            => get_available_balance(streams[id], Now, overflow_checks)
                   = Expected(streams[id].current_balance)


(***************************************************************************)
(* create_stream                                                           *)
(***************************************************************************)
Created == last.op = "create_stream"

\* a create_stream request that passed validate_stream_creation_parameters
CreatedWithValidParameters ==
    Created /\ last.caller # last.recipient /\ last.funds > 0

\* C7: create_stream reports the first failing check: recipient = payer, then
\* empty funds, then both date parameters absent, and only then the thresholds.
C7_ValidationOrder ==
    Created =>
        /\ last.caller = last.recipient
               => last.result = Err("RecipientCannotBePayer")
        /\ (last.caller # last.recipient /\ last.funds = 0)
               => last.result = Err("EmptyFunds")
        /\ (CreatedWithValidParameters /\ last.end_date = None /\ last.duration = None)
               => last.result = Err("EndDateAndDurationAreEmpty")
        /\ (IsErr(last.result, "StreamEndDateShouldBeLater")
                \/ IsErr(last.result, "StreamDurationShouldBeGreater"))
               => (CreatedWithValidParameters
                     /\ ~(last.end_date = None /\ last.duration = None))

\* a request failing every check is answered with the first one
C7_Witness ==
    /\ Created /\ last.caller = last.recipient /\ last.funds = 0
    /\ last.end_date = None /\ last.duration = Some(STREAM_MINIMUM_DURATION - 1)
    /\ last.result = Err("RecipientCannotBePayer")

\* C8: every stored stream has end_date >= start_date + 300.
C8_EndAfterStart ==
    \A id \in DOMAIN streams :
        streams[id].end_date >= streams[id].start_date + STREAM_MINIMUM_DURATION

\* C9: with an end date, create_stream fails with StreamEndDateShouldBeLater
\* exactly when end_date < start_date + 300; with a duration only, it fails with
\* StreamDurationShouldBeGreater exactly when duration < 300, and otherwise
\* stores end_date = start_date + duration.
C9_InclusiveThresholds ==
    CreatedWithValidParameters =>
        /\ last.end_date # None =>
            IF Unwrap(last.end_date) < last.time + STREAM_MINIMUM_DURATION
            THEN last.result = Err("StreamEndDateShouldBeLater")
            ELSE IsOk(last.result)
        /\ (last.end_date = None /\ last.duration # None) =>
            IF Unwrap(last.duration) < STREAM_MINIMUM_DURATION
            THEN last.result = Err("StreamDurationShouldBeGreater")
            ELSE /\ IsOk(last.result)
                 /\ streams[last.result.val].end_date
                        = last.time + Unwrap(last.duration)

\* C10: with an end date, the outcome of create_stream depends on the end date
\* alone, whatever the duration: StreamEndDateShouldBeLater, or the stream is
\* stored with the end date given.
C10_DurationIgnored ==
    (CreatedWithValidParameters /\ last.end_date # None) =>
        IF Unwrap(last.end_date) < last.time + STREAM_MINIMUM_DURATION
        THEN last.result = Err("StreamEndDateShouldBeLater")
        ELSE /\ IsOk(last.result)
             /\ streams[last.result.val].end_date = Unwrap(last.end_date)

\* a stream created with an end date and a duration below the minimum
C10_Witness ==
    /\ CreatedWithValidParameters /\ IsOk(last.result)
    /\ last.end_date # None
    /\ last.duration = Some(STREAM_MINIMUM_DURATION - 1)
    /\ streams[last.result.val].end_date = Unwrap(last.end_date)

\* a step that is a call of the message op
Called(op) == last'.op = op

\* the stream a recipient_withdraw step addresses, before the step
Addressed == streams[last'.stream_id]

\* C11: a successful create_stream returns next_stream_id as it was before the
\* call, increases it by exactly 1 and stores under the returned id the stream
\* of the caller, the recipient, the funds as both balances, the current time
\* as start date and the end date given or the current time plus the duration.
C11_CreatePostcondition ==
    [][(Called("create_stream") /\ IsOk(last'.result)) =>
          /\ last'.result.val = next_stream_id
          /\ next_stream_id' = next_stream_id + 1
          /\ last'.result.val \in DOMAIN streams'
          /\ streams'[last'.result.val] =
                 [payer |-> last'.caller,
                  recipient |-> last'.recipient,
                  original_balance |-> last'.funds,
                  current_balance |-> last'.funds,
                  start_date |-> last'.time,
                  end_date |-> IF last'.end_date # None
                               THEN Unwrap(last'.end_date)
                               ELSE last'.time + Unwrap(last'.duration)]]_vars

C13_OnlyRecipientWithdraws ==
    [][(/\ Called("recipient_withdraw")
        /\ last'.stream_id \in DOMAIN streams
        /\ last'.caller # Addressed.recipient
        /\ last'.withdrawal_amount # Some(0)) =>
          /\ last'.result = Err("Unauthorized")
          /\ streams' = streams
          /\ last'.transfer = None]_vars

\* the payer refused on a finished stream that still holds its whole balance
C13_Witness ==
    /\ last.op = "recipient_withdraw"
    /\ last.stream_id \in DOMAIN streams
    /\ last.caller = streams[last.stream_id].payer
    /\ last.withdrawal_amount = None
    /\ last.result = Err("Unauthorized")
    /\ Now > streams[last.stream_id].end_date
    /\ streams[last.stream_id].current_balance > 0

\* C14: a successful recipient_withdraw returns the amount asked for, or the
\* whole available balance when none is asked for, decreases the stored
\* current_balance by exactly the amount it returns and requests one transfer
\* of that amount to the recipient.
C14_WithdrawPostcondition ==
    [][(Called("recipient_withdraw") /\ IsOk(last'.result)) =>
          /\ last'.stream_id \in DOMAIN streams
          /\ last'.result.val =
                 IF last'.withdrawal_amount # None
                 THEN Unwrap(last'.withdrawal_amount)
                 ELSE get_available_balance(Addressed, last'.time,
                                            overflow_checks).val
          /\ streams' = [streams EXCEPT ![last'.stream_id].current_balance =
                             Addressed.current_balance - last'.result.val]
          /\ last'.transfer = Some([to |-> Addressed.recipient,
                                    amount |-> last'.result.val,
                                    ok |-> TRUE])]_vars

\* half of a finished stream withdrawn, the other half left
C14_Witness ==
    /\ last.op = "recipient_withdraw" /\ IsOk(last.result)
    /\ last.withdrawal_amount = Some(last.result.val)
    /\ Now > streams[last.stream_id].end_date
    /\ streams[last.stream_id].original_balance = 2 * last.result.val
    /\ streams[last.stream_id].current_balance = last.result.val

\* the transfer a recipient_withdraw step has requested and that has failed
TransferFailed(call) == call.transfer # None /\ ~Unwrap(call.transfer).ok

\* C15: when the transfer fails, recipient_withdraw returns
\* WithdrawTransferFailed, the transfer is not requested again, and the stored
\* current_balance stays decreased by the amount of the transfer.
C15_FailedTransferKeepsDecrement ==
    [][Called("recipient_withdraw") =>
          /\ TransferFailed(last') <=> last'.result = Err("WithdrawTransferFailed")
          /\ TransferFailed(last') =>
                 /\ Unwrap(last'.transfer).amount > 0
                 /\ streams' = [streams EXCEPT ![last'.stream_id].current_balance =
                        Addressed.current_balance - Unwrap(last'.transfer).amount]
      ]_vars

\* a failed transfer of the whole balance: the stream is left empty
C15_Witness ==
    /\ last.op = "recipient_withdraw"
    /\ last.result = Err("WithdrawTransferFailed")
    /\ TransferFailed(last)
    /\ streams[last.stream_id].current_balance = 0
    /\ Unwrap(last.transfer).amount = streams[last.stream_id].original_balance

\* the validation errors of recipient_withdraw
WithdrawValidationErrors ==
    {"WithdrawalAmountShouldBeGreaterThanZero", "StreamDoesNotExist",
     "Unauthorized", "StreamAvailableBalanceIsZero",
     "ExpectedWithdrawalAmountExceedsStreamAvailableBalance"}

\* C16: a create_stream that fails, and a recipient_withdraw that fails with a
\* validation error, leave the streams and next_stream_id as they were and
\* request no transfer.
C16_FailureChangesNothing ==
    [][(\/ Called("create_stream") /\ last'.result.tag = "Err"
        \/ /\ Called("recipient_withdraw") /\ last'.result.tag = "Err"
           /\ last'.result.err \in WithdrawValidationErrors) =>
          /\ streams' = streams
          /\ next_stream_id' = next_stream_id
          /\ last'.transfer = None]_vars

\* an amount within the balance of the stream and above its available balance
C16_Witness ==
    /\ last.op = "recipient_withdraw"
    /\ last.result = Err("ExpectedWithdrawalAmountExceedsStreamAvailableBalance")
    /\ last.withdrawal_amount # None
    /\ Unwrap(last.withdrawal_amount) <= streams[last.stream_id].current_balance
    /\ last.transfer = None

\* the stream has nothing to give at time t: it has just been created, it is
\* empty, or linear vesting has unlocked no unit beyond those withdrawn
NothingUnlocked(stream, t) ==
    \/ t = stream.start_date
    \/ stream.current_balance = 0
    \/ InVestingPeriod(stream, t) /\ VestedAmount(stream, t) = Withdrawn(stream)

\* C19: an available balance of 0 is the error StreamAvailableBalanceIsZero,
\* never a success of 0: get_available_balance fails with it at creation time,
\* when the floor division unlocks no new unit and on an empty stream, and
\* recipient_withdraw then fails with it whatever amount above zero is asked
\* for, and never returns 0.
C19_ZeroAvailableIsError ==
    [][/\ \A id \in DOMAIN streams :
             LET available == get_available_balance(streams[id], Now, overflow_checks)
             IN  /\ available # Ok(0)
                 /\ NothingUnlocked(streams[id], Now)
                        => available = Err("StreamAvailableBalanceIsZero")
       /\ Called("recipient_withdraw") =>
             /\ IsOk(last'.result) => last'.result.val > 0
             /\ (/\ last'.stream_id \in DOMAIN streams
                 /\ last'.caller = Addressed.recipient
                 /\ last'.withdrawal_amount # Some(0)
                 /\ get_available_balance(Addressed, last'.time, overflow_checks)
                        = Err("StreamAvailableBalanceIsZero"))
                => last'.result = Err("StreamAvailableBalanceIsZero")]_vars

\* C20: the current_balance of a stream starts at its original_balance and
\* no step ever increases it.
C20_BalanceNeverIncreases ==
    [][\A id \in DOMAIN streams' :
          IF id \in DOMAIN streams
          THEN streams'[id].current_balance <= streams[id].current_balance
          ELSE streams'[id].current_balance = streams'[id].original_balance]_vars

\* a stream lowered by a withdrawal, then left as it is by a withdrawal
\* refused for its amount
C20_Witness ==
    /\ last.op = "recipient_withdraw"
    /\ last.result = Err("ExpectedWithdrawalAmountExceedsStreamAvailableBalance")
    /\ streams[last.stream_id].current_balance > 0
    /\ streams[last.stream_id].current_balance
           < streams[last.stream_id].original_balance

\* amounts around the balance of a stream
AmountsAround(stream) ==
    {0, 1, stream.current_balance, stream.current_balance + 1, U128Max}
        \cup (IF stream.current_balance > 0 THEN {stream.current_balance - 1} ELSE {})

C22_ElapsedNeverUnderflows ==
    /\ \A id \in DOMAIN streams : streams[id].start_date <= Now
    /\ (last.op = "recipient_withdraw" /\ last.stream_id \in DOMAIN streams)
           => last.time - streams[last.stream_id].start_date >= 0

\* a withdrawal during vesting, in a block after the one of the creation
C22_Witness ==
    /\ last.op = "recipient_withdraw" /\ IsOk(last.result)
    /\ last.time > streams[last.stream_id].start_date
    /\ last.time < streams[last.stream_id].end_date

\* C24: every stream can be drained: once the time has reached its end date,
\* a single recipient_withdraw with no amount by the recipient, on a stream
\* that holds a balance and with a transfer that succeeds, returns the whole
\* current_balance and leaves it at 0; so a recipient who keeps withdrawing
\* while time advances empties the stream.
C24_DrainAtEnd ==
    [][(/\ Called("recipient_withdraw")
        /\ last'.stream_id \in DOMAIN streams
        /\ last'.caller = Addressed.recipient
        /\ last'.withdrawal_amount = None
        /\ last'.time >= Addressed.end_date
        /\ Addressed.current_balance > 0
        /\ ~TransferFailed(last')) =>
          /\ last'.result = Ok(Addressed.current_balance)
          /\ streams'[last'.stream_id].current_balance = 0]_vars

\* C26: for every stored stream and every request time from its start date to
\* its end date, original_balance * (current_time - start_date) fits in an
\* unsigned 128-bit integer.
C26_ProductFitsU128 ==
    \A id \in DOMAIN streams :
        InVestingPeriod(streams[id], Now) =>
            streams[id].original_balance * (Now - streams[id].start_date) <= U128Max

(***************************************************************************)
(* The registry with several streams: the same messages, drawn from        *)
(* smaller input sets.                                                     *)
(***************************************************************************)
RegistryFunds == {0, 450}
RegistryEndDates == {None, Some(301)}
RegistryDurations == {None, Some(STREAM_MINIMUM_DURATION)}

RegistryCreateStream ==
    \E caller \in Accounts, recipient \in Recipients, funds \in RegistryFunds,
       end_date \in RegistryEndDates, duration \in RegistryDurations :
        create_stream(MaxRegistryStreams, caller, recipient, funds, end_date, duration)

RegistryRecipientWithdraw ==
    \E caller \in Accounts, stream_id \in 0..MaxRegistryStreams :
        \E withdrawal_amount \in {None, Some(225)}, transfer_ok \in BOOLEAN :
            recipient_withdraw(caller, stream_id, withdrawal_amount, transfer_ok)

RegistryGetStreamById ==
    \E stream_id \in 0..(MaxRegistryStreams + 1) : get_stream_by_id_message(stream_id)

NextRegistry ==
    RegistryCreateStream \/ RegistryRecipientWithdraw \/ RegistryGetStreamById
        \/ AdvanceBlock

SpecRegistry == Init /\ [][NextRegistry]_vars

\* C6: the identifiers returned by successful create_stream calls are 1, 2,
\* 3, ... in this order, a failed call consumes none, and each one names a
\* stream of its own.
C6_SequentialIds ==
    /\ \A i \in 1..Len(created_ids) : created_ids[i] = i
    /\ DOMAIN streams = 1..Len(created_ids)
    /\ next_stream_id = Len(created_ids) + 1

\* the second identifier, returned after a withdrawal from the first stream
C6_Witness ==
    /\ created_ids = <<1, 2>>
    /\ Created /\ last.result = Ok(2)
    /\ streams[1].current_balance < streams[1].original_balance

\* C17: get_stream_by_id answers StreamDoesNotExist exactly for the ids never
\* assigned (0 and every id from next_stream_id on), a copy of the stored
\* stream otherwise, and changes nothing in the registry, so that a repeated
\* call gives the same answer.
C17_ReadOnlyLookup ==
    [][Called("get_stream_by_id") =>
          /\ streams' = streams /\ next_stream_id' = next_stream_id
          /\ last'.result = Err("StreamDoesNotExist")
                 <=> (last'.stream_id = 0 \/ last'.stream_id >= next_stream_id)
          /\ last'.stream = IF 1 <= last'.stream_id /\ last'.stream_id < next_stream_id
                            THEN Some(streams[last'.stream_id]) ELSE None
          /\ last.op = "get_stream_by_id" /\ last.stream_id = last'.stream_id
                 => last'.stream = last.stream /\ last'.result = last.result
      ]_vars

\* the second stream read after a withdrawal from it, the id after it missing
C17_Witness ==
    /\ last.op = "get_stream_by_id" /\ last.stream_id = 2
    /\ next_stream_id = 3
    /\ last.stream = Some(streams[2])
    /\ streams[2].current_balance < streams[2].original_balance

\* C18: a stream once stored is never removed, and its payer, recipient,
\* original_balance, start_date and end_date never change.
C18_StreamsImmutable ==
    [][\A id \in DOMAIN streams :
          /\ id \in DOMAIN streams'
          /\ streams'[id].payer = streams[id].payer
          /\ streams'[id].recipient = streams[id].recipient
          /\ streams'[id].original_balance = streams[id].original_balance
          /\ streams'[id].start_date = streams[id].start_date
          /\ streams'[id].end_date = streams[id].end_date]_vars

\* an emptied stream read, after a second stream has been created
C18_Witness ==
    /\ last.op = "get_stream_by_id" /\ last.stream_id = 1
    /\ 1 \in DOMAIN streams
    /\ last.stream = Some(streams[1])
    /\ streams[1].current_balance = 0
    /\ streams[1].original_balance > 0
    /\ 2 \in DOMAIN streams
    /\ streams[2].start_date > streams[1].start_date

\* the registry holding the stream of one id only, if it holds it
Only(stream_id) == [k \in {stream_id} \cap DOMAIN streams |-> streams[k]]

\* C25: a create_stream or a recipient_withdraw leaves every stream but the
\* one it addresses as it was, and the result of a withdrawal is the one it
\* has in a registry that holds the addressed stream alone.
C25_StreamsIndependent ==
    [][/\ Called("create_stream") =>
             \A id \in DOMAIN streams :
                 (IsOk(last'.result) => id # last'.result.val)
                     => id \in DOMAIN streams' /\ streams'[id] = streams[id]
       /\ Called("recipient_withdraw") =>
             /\ \A id \in DOMAIN streams \ {last'.stream_id} :
                    id \in DOMAIN streams' /\ streams'[id] = streams[id]
             /\ \E transfer_ok \in BOOLEAN :
                    last'.result =
                        TransferResult(
                            WithdrawOutcome(Only(last'.stream_id), last'.caller,
                                last'.stream_id, last'.withdrawal_amount,
                                last'.time, overflow_checks).result,
                            transfer_ok)]_vars

\* a withdrawal from the second stream, the first one empty
C25_Witness ==
    /\ last.op = "recipient_withdraw" /\ last.stream_id = 2 /\ IsOk(last.result)
    /\ 1 \in DOMAIN streams
    /\ streams[1].current_balance = 0
    /\ streams[2].current_balance < streams[2].original_balance

\* the sum of current_balance over the streams of a registry
RECURSIVE SumOfBalances(_, _)
SumOfBalances(map, ids) ==
    IF ids = {} THEN 0
    ELSE LET id == CHOOSE k \in ids : TRUE
         IN  map[id].current_balance + SumOfBalances(map, ids \ {id})

TotalCurrentBalance(map) == SumOfBalances(map, DOMAIN map)

\* what a call adds to the funds in custody: the funds received with an
\* accepted create_stream, less the amount of a transfer that succeeds
CustodyChange(call) ==
    (IF call.op = "create_stream" /\ IsOk(call.result) THEN call.funds ELSE 0)
        - (IF call.transfer # None /\ Unwrap(call.transfer).ok
           THEN Unwrap(call.transfer).amount ELSE 0)

\* C23: solvency. From the empty registry, the funds in custody are at least
\* the sum of current_balance over the stored streams, and equal to it while
\* no transfer has failed: every step changes the funds in custody by what
\* it changes the sum, but a step whose transfer fails, which lowers the sum
\* by the amount not transferred and keeps the funds.
C23_Solvency ==
    [][IF TransferFailed(last')
       THEN /\ CustodyChange(last') = 0
            /\ TotalCurrentBalance(streams') =
                   TotalCurrentBalance(streams) - Unwrap(last'.transfer).amount
            /\ Unwrap(last'.transfer).amount > 0
       ELSE TotalCurrentBalance(streams') =
                TotalCurrentBalance(streams) + CustodyChange(last')]_vars

\* two streams of 450 and one withdrawal, whose transfer has failed: the funds
\* in custody are 900, above the sum by the amount not transferred
C23_Witness ==
    /\ last.op = "recipient_withdraw" /\ TransferFailed(last)
    /\ DOMAIN streams = {1, 2}
    /\ streams[1].original_balance + streams[2].original_balance = 900
    /\ TotalCurrentBalance(streams) + Unwrap(last.transfer).amount = 900
====
